---- MODULE Spec2Model ----
(***************************************************************************)
(* Model of the drivetemp hwmon drivers satatemp.c and smarttemp.c: the    *)
(* ATA pass-through command builder, the attach-time probe, the SMART      *)
(* attribute decoder, the SCT status decoder and the hwmon read callback.  *)
(* The drive is the environment: every command it is sent is answered by   *)
(* a failure or by a 512-byte page drawn from the sets defined below.      *)
(***************************************************************************)
EXTENDS Integers, Sequences, FiniteSets, TLC

VARIABLES
    driver,       \* which of the two source files is the program
    char_signed,  \* whether plain char is signed in this build (read casts)
    sdev,         \* the SCSI device: cached inquiry data and VPD page 0x89
    phase,        \* "attached" | "registered" | "rejected" | "removed"
    st,           \* struct satatemp_data / struct smarttemp_data
    devlist,      \* satatemp_devlist / smarttemp_devlist
    op,           \* the last callback that ran, and its attribute
    ret,          \* its return value
    wrote,        \* whether it assigned *val
    val,          \* the value it assigned to *val (0 when it assigned none)
    cmds,         \* the commands the last callback sent to the drive
    probe_cmds,   \* the commands the probe sent to the drive
    scsi_cmd,     \* static u8 scsi_cmd[MAX_COMMAND_SIZE], one for the module
    devs,         \* the device records that concurrent callers read
    calls         \* the concurrent callers: position and locals of each

vars == <<driver, char_signed, sdev, phase, st, devlist, op, ret, wrote, val,
          cmds, probe_cmds, scsi_cmd, devs, calls>>

----------------------------------------------------------------------------
(* Program constants *)

ATA_SECT_SIZE == 512
MAX_COMMAND_SIZE == 16
ATA_MAX_SMART_ATTRS == 30
SMART_TEMP_PROP_190 == 190
SMART_TEMP_PROP_194 == 194
ATA_IDENTIFY_DEVICE == 236
IDENTIFY_SCT_TRANSPORT == 412
SCT_STATUS_REQ_ADDR == 224
SCT_STATUS_VERSION_LOW == 0
SCT_STATUS_VERSION_HIGH == 1
SCT_STATUS_TEMP == 200
SCT_STATUS_TEMP_LOWEST == 201
SCT_STATUS_TEMP_HIGHEST == 202
SCT_READ_LOG_ADDR == 225
SMART_READ_LOG == 213
SMART_WRITE_LOG == 214
INVALID_TEMP == 128
\* <linux/ata.h>, <scsi/scsi_proto.h>, <linux/errno.h>
ATA_16 == 133
ATA_CMD_SMART == 176
ATA_CMD_ID_ATA == 236
ATA_SMART_READ_VALUES == 208
ATA_SMART_LBAM_PASS == 79
ATA_SMART_LBAH_PASS == 194
EIO == 5
ENXIO == 6
ENOMEM == 12
ENODEV == 19
EINVAL == 22
\* a nonzero result of scsi_execute_req
CMD_FAILED == 2

Attrs == {"input", "lowest", "highest", "lcrit", "min", "max", "crit"}

----------------------------------------------------------------------------
(* Bytes and pages *)

\* (s8)b
s8(b) == IF b >= 128 THEN b - 256 ELSE b

\* (char)b: plain char is signed or unsigned as the build has it
char(b) == IF char_signed THEN s8(b) ELSE b

\* bit n of byte b, as BIT(n) & b != 0
BitSet(b, n) == (b \div (2 ^ n)) % 2 = 1

\* A 512-byte page is held as the function from the offsets of its bytes that
\* were set explicitly to their values; every other byte of the page is 0.
ZeroPage == [i \in {} |-> 0]

\* buf[i]
Byte(buf, i) == IF i \in DOMAIN buf THEN buf[i] ELSE 0

RECURSIVE SumOver(_, _)
\* sum of the bytes of page p at the offsets in S
SumOver(p, S) ==
    IF S = {} THEN 0
    ELSE LET i == CHOOSE j \in S : TRUE IN p[i] + SumOver(p, S \ {i})

\* the page p with its last byte set so that all 512 bytes sum to fix mod 256
WithChecksum(p, fix) ==
    LET s == SumOver(p, DOMAIN p \ {ATA_SECT_SIZE - 1})
    IN  [i \in DOMAIN p \cup {ATA_SECT_SIZE - 1} |->
            IF i = ATA_SECT_SIZE - 1 THEN (fix + 256 - (s % 256)) % 256 ELSE p[i]]

----------------------------------------------------------------------------
(* The device record *)

\* kzalloc(sizeof(struct satatemp_data)): every field zero
satatemp_data ==
    [smartdata |-> ZeroPage, get_temp |-> "NULL",
     have_temp_lowest |-> FALSE, have_temp_highest |-> FALSE,
     have_temp_min |-> FALSE, have_temp_max |-> FALSE,
     have_temp_lcrit |-> FALSE, have_temp_crit |-> FALSE,
     temp_min |-> 0, temp_max |-> 0, temp_lcrit |-> 0, temp_crit |-> 0]

\* kzalloc(sizeof(struct smarttemp_data)): every field zero
smarttemp_data ==
    [smartdata |-> ZeroPage, have_sct_temp |-> FALSE,
     have_temp_lowest |-> FALSE, have_temp_highest |-> FALSE,
     have_temp_min |-> FALSE, have_temp_max |-> FALSE,
     have_temp_lcrit |-> FALSE, have_temp_crit |-> FALSE,
     temp_min |-> 0, temp_max |-> 0, temp_lcrit |-> 0, temp_crit |-> 0]

\* a call in progress: the device record and the commands sent so far
Ctx(s, log) == [st |-> s, log |-> log]

\* what a callback hands back: return value, whether *val was assigned, value
Res(c, err, w, v) == [st |-> c.st, log |-> c.log, err |-> err, wrote |-> w, val |-> v]

----------------------------------------------------------------------------
(* CommandBuilder: the 16-byte ATA pass-through command block *)

\* the bytes both builders set after the direction is decided
\* memset(scsi_cmd, 0, sizeof(scsi_cmd)); also the static array as loaded
ZeroBlock == [i \in 0..(MAX_COMMAND_SIZE - 1) |-> 0]

\* scsi_cmd after the commands of a log were built: the block of the last one
LastBlock(log, before) == IF log = <<>> THEN before ELSE log[Len(log)].cmd

\* a block with the feature byte and the log address in each other's place
CommandBlock_Swapped(b1, b2, ata_command, feature, lba_low, lba_mid, lba_high) ==
    [i \in 0..(MAX_COMMAND_SIZE - 1) |->
        CASE i = 0 -> ATA_16
          [] i = 1 -> b1
          [] i = 2 -> b2
          [] i = 4 -> lba_low
          [] i = 6 -> 1
          [] i = 8 -> feature
          [] i = 10 -> lba_mid
          [] i = 12 -> lba_high
          [] i = 14 -> ata_command
          [] OTHER -> 0]

CommandBlock(b1, b2, ata_command, feature, lba_low, lba_mid, lba_high) ==
    [i \in 0..(MAX_COMMAND_SIZE - 1) |->
        CASE i = 0 -> ATA_16
          [] i = 1 -> b1
          [] i = 2 -> b2
          [] i = 4 -> feature
          [] i = 6 -> 1
          [] i = 8 -> lba_low
          [] i = 10 -> lba_mid
          [] i = 12 -> lba_high
          [] i = 14 -> ata_command
          [] OTHER -> 0]

\* satatemp_scsi_command up to the call of scsi_execute_req
satatemp_build(ata_command, feature, lba_low, lba_mid, lba_high) ==
    IF ata_command = ATA_CMD_SMART /\ feature = SMART_WRITE_LOG
    THEN [cmd |-> CommandBlock(5 * 2, 6, ata_command, feature, lba_low, lba_mid, lba_high),
          data_dir |-> "DMA_TO_DEVICE"]
    ELSE [cmd |-> CommandBlock(4 * 2, 14, ata_command, feature, lba_low, lba_mid, lba_high),
          data_dir |-> "DMA_FROM_DEVICE"]

\* smarttemp_scsi_command up to the call of scsi_execute_req
smarttemp_build(ata_command, feature, lba_low, lba_mid, lba_high) ==
    IF feature = SMART_WRITE_LOG
    THEN [cmd |-> CommandBlock(5 * 2, 6, ata_command, feature, lba_low, lba_mid, lba_high),
          data_dir |-> "DMA_TO_DEVICE"]
    ELSE [cmd |-> CommandBlock(4 * 2, 14, ata_command, feature, lba_low, lba_mid, lba_high),
          data_dir |-> "DMA_FROM_DEVICE"]

\* scsi_execute_req(sdev, scsi_cmd, data_dir, st->smartdata, ATA_SECT_SIZE,
\* NULL, HZ, 5, NULL) answered by the drive with r = [err, data]: a data-in
\* command that succeeds overwrites smartdata, a data-out command sends it
scsi_execute_req(c, b, r) ==
    LET in == b.data_dir = "DMA_FROM_DEVICE"
        e  == [cmd |-> b.cmd, data_dir |-> b.data_dir, bufflen |-> ATA_SECT_SIZE,
               timeout |-> "HZ", retries |-> 5, err |-> r.err,
               data |-> IF in THEN (IF r.err = 0 THEN r.data ELSE ZeroPage)
                        ELSE c.st.smartdata]
    IN  [st  |-> IF in /\ r.err = 0 THEN [c.st EXCEPT !.smartdata = r.data] ELSE c.st,
         log |-> Append(c.log, e),
         err |-> r.err]

\* satatemp_scsi_command
satatemp_scsi_command(c, ata_command, feature, lba_low, lba_mid, lba_high, r) ==
    scsi_execute_req(c, satatemp_build(ata_command, feature, lba_low, lba_mid, lba_high), r)

\* smarttemp_scsi_command
smarttemp_scsi_command(c, ata_command, feature, lba_low, lba_mid, lba_high, r) ==
    scsi_execute_req(c, smarttemp_build(ata_command, feature, lba_low, lba_mid, lba_high), r)

satatemp_ata_command(c, feature, select, r) ==
    satatemp_scsi_command(c, ATA_CMD_SMART, feature, select,
                          ATA_SMART_LBAM_PASS, ATA_SMART_LBAH_PASS, r)

smarttemp_ata_command(c, feature, select, r) ==
    smarttemp_scsi_command(c, ATA_CMD_SMART, feature, select,
                           ATA_SMART_LBAM_PASS, ATA_SMART_LBAH_PASS, r)

----------------------------------------------------------------------------
(* SmartDecoder *)

RECURSIVE Checksum(_, _, _)
\* csum = 0; for (i = 0; i < ATA_SECT_SIZE; i++) csum += buf[i];   (u8 csum)
\* The u8 accumulation of buf[lo] .. buf[hi - 1] is their sum modulo 256; it is
\* evaluated by halves, which adds the same bytes in the same order.
Checksum(buf, lo, hi) ==
    IF hi <= lo THEN 0
    ELSE IF hi = lo + 1 THEN Byte(buf, lo) % 256
    ELSE (Checksum(buf, lo, (lo + hi) \div 2)
          + Checksum(buf, (lo + hi) \div 2, hi)) % 256

\* a scan of one record too many
nattrs_OneMore == ATA_MAX_SMART_ATTRS + 1

\* min_t(int, ATA_MAX_SMART_ATTRS, ATA_SECT_SIZE / 12)
nattrs ==
    IF ATA_MAX_SMART_ATTRS < ATA_SECT_SIZE \div 12
    THEN ATA_MAX_SMART_ATTRS ELSE ATA_SECT_SIZE \div 12

RECURSIVE ScanAttrs_NoBreak(_, _, _, _)
\* a scan that does not stop at attribute 194
ScanAttrs_NoBreak(buf, i, have_temp, temp_raw) ==
    IF ~(i < ATA_MAX_SMART_ATTRS) THEN [have_temp |-> have_temp, temp_raw |-> temp_raw]
    ELSE IF Byte(buf, i * 12 + 2) \in {SMART_TEMP_PROP_190, SMART_TEMP_PROP_194}
         THEN ScanAttrs_NoBreak(buf, i + 1, TRUE, Byte(buf, i * 12 + 7))
    ELSE ScanAttrs_NoBreak(buf, i + 1, have_temp, temp_raw)

RECURSIVE ScanAttrs_First190(_, _, _, _)
\* a scan that stops at attribute 190 as it does at attribute 194
ScanAttrs_First190(buf, i, have_temp, temp_raw) ==
    IF ~(i < ATA_MAX_SMART_ATTRS) THEN [have_temp |-> have_temp, temp_raw |-> temp_raw]
    ELSE IF Byte(buf, i * 12 + 2) \in {SMART_TEMP_PROP_190, SMART_TEMP_PROP_194}
         THEN [have_temp |-> TRUE, temp_raw |-> Byte(buf, i * 12 + 7)]
    ELSE ScanAttrs_First190(buf, i + 1, have_temp, temp_raw)

RECURSIVE ScanAttrs_StopAtZero(_, _, _, _)
\* a scan that takes a record with id 0 for the end of the table
ScanAttrs_StopAtZero(buf, i, have_temp, temp_raw) ==
    IF ~(i < ATA_MAX_SMART_ATTRS) THEN [have_temp |-> have_temp, temp_raw |-> temp_raw]
    ELSE IF Byte(buf, i * 12 + 2) = 0 THEN [have_temp |-> have_temp, temp_raw |-> temp_raw]
    ELSE IF Byte(buf, i * 12 + 2) = SMART_TEMP_PROP_194
         THEN [have_temp |-> TRUE, temp_raw |-> Byte(buf, i * 12 + 7)]
    ELSE IF Byte(buf, i * 12 + 2) = SMART_TEMP_PROP_190
         THEN ScanAttrs_StopAtZero(buf, i + 1, TRUE, Byte(buf, i * 12 + 7))
    ELSE ScanAttrs_StopAtZero(buf, i + 1, have_temp, temp_raw)

RECURSIVE ScanAttrs(_, _, _, _)
\* for (i = 0; i < nattrs; i++) { ... }: attr = buf + i * 12, id = attr[2];
\* id 0 is skipped, 190 is taken and the scan goes on, 194 is taken and the
\* scan stops; temp_raw is meaningful only once have_temp is set
ScanAttrs(buf, i, have_temp, temp_raw) ==
    IF ~(i < nattrs) THEN [have_temp |-> have_temp, temp_raw |-> temp_raw]
    ELSE IF Byte(buf, i * 12 + 2) = 0 THEN ScanAttrs(buf, i + 1, have_temp, temp_raw)
    ELSE IF Byte(buf, i * 12 + 2) = SMART_TEMP_PROP_194
         THEN [have_temp |-> TRUE, temp_raw |-> Byte(buf, i * 12 + 7)]
    ELSE IF Byte(buf, i * 12 + 2) = SMART_TEMP_PROP_190
         THEN ScanAttrs(buf, i + 1, TRUE, Byte(buf, i * 12 + 7))
    ELSE ScanAttrs(buf, i + 1, have_temp, temp_raw)

\* if (have_temp) { *temp = temp_raw * 1000; return 0; } return -ENXIO;
SmartResult(c, s) ==
    IF s.have_temp THEN Res(c, 0, TRUE, s.temp_raw * 1000)
    ELSE Res(c, -ENXIO, FALSE, 0)

\* a decoder that does not look at the checksum
DecodeSmart_NoChecksum(x) ==
    IF x.err # 0 THEN Res(x, x.err, FALSE, 0)
    ELSE SmartResult(x, ScanAttrs(x.st.smartdata, 0, FALSE, 0))

\* satatemp_get_smarttemp / smarttemp_read_smarttemp from "if (err)" on: x is
\* the call after SMART READ VALUES came back
DecodeSmart(x) ==
    IF x.err # 0 THEN Res(x, x.err, FALSE, 0)
    ELSE IF Checksum(x.st.smartdata, 0, ATA_SECT_SIZE) # 0 THEN Res(x, -EIO, FALSE, 0)
    ELSE SmartResult(x, ScanAttrs(x.st.smartdata, 0, FALSE, 0))

\* satatemp_get_smarttemp(st, attr, temp); attr is not looked at
satatemp_get_smarttemp(c, attr, r) ==
    DecodeSmart(satatemp_ata_command(c, ATA_SMART_READ_VALUES, 0, r))

\* smarttemp_read_smarttemp(st, temp)
smarttemp_read_smarttemp(c, r) ==
    DecodeSmart(smarttemp_ata_command(c, ATA_SMART_READ_VALUES, 0, r))

----------------------------------------------------------------------------
(* SctDecoder: the live read of the SCT status log *)

\* a decoder that answers a failed command from the page it read before
DecodeSct_Stale(x, attr) ==
    Res(x, 0, TRUE, char(Byte(x.st.smartdata, SCT_STATUS_TEMP)) * 1000)

\* a decoder that takes the lowest flag afresh from every page it reads
DecodeSct_Relearn(x, attr) ==
    IF x.err # 0 THEN Res(x, x.err, FALSE, 0)
    ELSE Res([st |-> [x.st EXCEPT !.have_temp_lowest =
                         Byte(x.st.smartdata, SCT_STATUS_TEMP_LOWEST) # INVALID_TEMP],
              log |-> x.log],
             0, TRUE, char(Byte(x.st.smartdata, SCT_STATUS_TEMP)) * 1000)

\* satatemp_get_scttemp / the SCT branch of smarttemp_read_temp from
\* "if (err)" on: x is the call after SMART READ LOG 0xe0 came back
DecodeSct(x, attr) ==
    IF x.err # 0 THEN Res(x, x.err, FALSE, 0)
    ELSE CASE attr = "input" ->
                  Res(x, 0, TRUE, char(Byte(x.st.smartdata, SCT_STATUS_TEMP)) * 1000)
           [] attr = "lowest" ->
                  Res(x, 0, TRUE, char(Byte(x.st.smartdata, SCT_STATUS_TEMP_LOWEST)) * 1000)
           [] attr = "highest" ->
                  Res(x, 0, TRUE, char(Byte(x.st.smartdata, SCT_STATUS_TEMP_HIGHEST)) * 1000)
           [] OTHER -> Res(x, -EINVAL, FALSE, 0)

\* satatemp_get_scttemp(st, attr, val)
satatemp_get_scttemp(c, attr, r) ==
    DecodeSct(satatemp_ata_command(c, SMART_READ_LOG, SCT_STATUS_REQ_ADDR, r), attr)

\* smarttemp_read_temp(st, attr, val)
smarttemp_read_temp(c, attr, rs) ==
    IF c.st.have_sct_temp
    THEN DecodeSct(smarttemp_ata_command(c, SMART_READ_LOG, SCT_STATUS_REQ_ADDR, rs.status),
                   attr)
    ELSE smarttemp_read_smarttemp(c, rs.smart)

----------------------------------------------------------------------------
(* DeviceProbe *)

\* a request written over the page read before, with no memset
RequestTable_NoMemset(c) ==
    Ctx([c.st EXCEPT !.smartdata = (0 :> 5) @@ (2 :> 1) @@ (4 :> 2) @@ @], c.log)

\* memset(buf, 0, sizeof(st->smartdata)); buf[0] = 5; buf[2] = 1; buf[4] = 2;
RequestTable(c) ==
    Ctx([c.st EXCEPT !.smartdata = (0 :> 5) @@ (2 :> 1) @@ (4 :> 2)], c.log)

\* limits whose critical flags follow the max and min bytes
SetLimits_Paired(c) ==
    Ctx([c.st EXCEPT
            !.have_temp_max = Byte(c.st.smartdata, 6) # INVALID_TEMP,
            !.have_temp_crit = Byte(c.st.smartdata, 6) # INVALID_TEMP,
            !.have_temp_min = Byte(c.st.smartdata, 8) # INVALID_TEMP,
            !.have_temp_lcrit = Byte(c.st.smartdata, 8) # INVALID_TEMP,
            !.temp_max = s8(Byte(c.st.smartdata, 6)) * 1000,
            !.temp_crit = s8(Byte(c.st.smartdata, 7)) * 1000,
            !.temp_min = s8(Byte(c.st.smartdata, 8)) * 1000,
            !.temp_lcrit = s8(Byte(c.st.smartdata, 9)) * 1000],
        c.log)

\* the four limits taken from the temperature history table in smartdata
SetLimits(c) ==
    Ctx([c.st EXCEPT
            !.have_temp_max = Byte(c.st.smartdata, 6) # INVALID_TEMP,
            !.have_temp_crit = Byte(c.st.smartdata, 7) # INVALID_TEMP,
            !.have_temp_min = Byte(c.st.smartdata, 8) # INVALID_TEMP,
            !.have_temp_lcrit = Byte(c.st.smartdata, 9) # INVALID_TEMP,
            !.temp_max = s8(Byte(c.st.smartdata, 6)) * 1000,
            !.temp_crit = s8(Byte(c.st.smartdata, 7)) * 1000,
            !.temp_min = s8(Byte(c.st.smartdata, 8)) * 1000,
            !.temp_lcrit = s8(Byte(c.st.smartdata, 9)) * 1000],
        c.log)

\* version = (buf[SCT_STATUS_VERSION_HIGH] << 8) | buf[SCT_STATUS_VERSION_LOW]
SctVersion(buf) ==
    Byte(buf, SCT_STATUS_VERSION_HIGH) * 256 + Byte(buf, SCT_STATUS_VERSION_LOW)

\* flags set together, both from the lowest byte
SetLowestHighest_Both(c) ==
    Ctx([c.st EXCEPT
            !.have_temp_lowest = Byte(c.st.smartdata, SCT_STATUS_TEMP_LOWEST) # INVALID_TEMP,
            !.have_temp_highest = Byte(c.st.smartdata, SCT_STATUS_TEMP_LOWEST) # INVALID_TEMP],
        c.log)

\* the lowest and highest flags taken from the SCT status page in smartdata
SetLowestHighest(c) ==
    Ctx([c.st EXCEPT
            !.have_temp_lowest = Byte(c.st.smartdata, SCT_STATUS_TEMP_LOWEST) # INVALID_TEMP,
            !.have_temp_highest = Byte(c.st.smartdata, SCT_STATUS_TEMP_HIGHEST) # INVALID_TEMP],
        c.log)

\* what the probe hands back: the device record, the commands sent, the result
Done(c, err) == [st |-> c.st, log |-> c.log, err |-> err]

\* return satatemp_get_smarttemp(st, hwmon_temp_input, &temp): temp is dropped
ProbeResult(g) == Done(g, g.err)

\* satatemp_identify, label skip_sct
satatemp_skip_sct(c, R) ==
    ProbeResult(satatemp_get_smarttemp(
                    Ctx([c.st EXCEPT !.get_temp = "satatemp_get_smarttemp"], c.log),
                    "input", R.smart))

\* satatemp_identify, label skip_sct_data
satatemp_skip_sct_data(c, have_sct_temp, R) ==
    IF have_sct_temp
    THEN Done(Ctx([c.st EXCEPT !.get_temp = "satatemp_get_scttemp"], c.log), 0)
    ELSE satatemp_skip_sct(c, R)

\* satatemp_identify after SMART READ LOG 0xe1 came back as t
satatemp_table_read(t, have_sct_temp, R) ==
    IF t.err # 0 THEN satatemp_skip_sct_data(t, have_sct_temp, R)
    ELSE satatemp_skip_sct_data(SetLimits(t), have_sct_temp, R)

\* satatemp_identify after SMART WRITE LOG 0xe0 came back as w
satatemp_table_requested(w, have_sct_temp, R) ==
    IF w.err # 0 THEN satatemp_skip_sct_data(w, have_sct_temp, R)
    ELSE satatemp_table_read(
             satatemp_ata_command(w, SMART_READ_LOG, SCT_READ_LOG_ADDR, R.table),
             have_sct_temp, R)

\* satatemp_identify after SMART READ LOG 0xe0 came back as x
satatemp_status_read(x, have_sct_data_table, R) ==
    IF x.err # 0 THEN satatemp_skip_sct(x, R)
    ELSE IF SctVersion(x.st.smartdata) # 2 /\ SctVersion(x.st.smartdata) # 3
         THEN satatemp_skip_sct(x, R)
    ELSE IF ~(Byte(x.st.smartdata, SCT_STATUS_TEMP) # INVALID_TEMP)
         THEN satatemp_skip_sct(x, R)
    ELSE IF ~have_sct_data_table THEN satatemp_skip_sct(SetLowestHighest(x), R)
    ELSE satatemp_table_requested(
             satatemp_ata_command(RequestTable(SetLowestHighest(x)),
                                  SMART_WRITE_LOG, SCT_STATUS_REQ_ADDR, R.write),
             Byte(x.st.smartdata, SCT_STATUS_TEMP) # INVALID_TEMP, R)

\* satatemp_identify(st); dev is st->sdev with its inquiry data and VPD page
satatemp_identify(c, dev, R) ==
    IF ~dev.inquiry.present \/ dev.inquiry.len < 16 THEN Done(c, -ENODEV)
    ELSE IF dev.inquiry.vendor # "ATA     " THEN Done(c, -ENODEV)
    ELSE IF ~R.vpd_alloc THEN Done(c, -ENOMEM)
    ELSE IF dev.vpd.err # 0 THEN Done(c, dev.vpd.err)
    ELSE IF dev.vpd.origin # "linux   libata          "
            \/ dev.vpd.command # ATA_CMD_ID_ATA
         THEN Done(c, -ENODEV)
    ELSE IF ~dev.vpd.is_ata \/ ~dev.vpd.is_sata THEN Done(c, -ENODEV)
    ELSE IF ~BitSet(dev.vpd.word206, 0) THEN satatemp_skip_sct(c, R)
    ELSE satatemp_status_read(
             satatemp_ata_command(c, SMART_READ_LOG, SCT_STATUS_REQ_ADDR, R.status),
             BitSet(dev.vpd.word206, 5), R)

\* an identification that takes every SCSI device for an ATA device
smarttemp_identify_ata_Any(dev) == 0

\* smarttemp_identify_ata(sdev)
smarttemp_identify_ata(dev) ==
    IF ~dev.inquiry.present \/ dev.inquiry.len < 16 THEN -ENODEV
    ELSE IF dev.inquiry.vendor # "ATA     " THEN -ENODEV
    ELSE 0

\* SMART READ VALUES sent a second time when the first one, g, failed
smarttemp_skip_sct_Again(g, R) ==
    IF g.err # 0 THEN ProbeResult(smarttemp_read_smarttemp(Ctx(g.st, g.log), R.smart))
    ELSE ProbeResult(g)

\* a fallback that sends SMART READ VALUES again when the first one failed
smarttemp_skip_sct_Retry(c, R) ==
    smarttemp_skip_sct_Again(smarttemp_read_smarttemp(c, R.smart), R)

\* smarttemp_identify_features, label skip_sct
smarttemp_skip_sct(c, R) == ProbeResult(smarttemp_read_smarttemp(c, R.smart))

\* a data-table failure that sends the probe to the SMART fallback
smarttemp_skip_sct_data_Fallback(c, R) == smarttemp_skip_sct(c, R)

\* smarttemp_identify_features, label skip_sct_data
smarttemp_skip_sct_data(c, R) ==
    IF c.st.have_sct_temp THEN Done(c, 0) ELSE smarttemp_skip_sct(c, R)

\* smarttemp_identify_features after SMART READ LOG 0xe1 came back as t
smarttemp_table_read(t, R) ==
    IF t.err # 0 THEN smarttemp_skip_sct_data(t, R)
    ELSE smarttemp_skip_sct_data(SetLimits(t), R)

\* smarttemp_identify_features after SMART WRITE LOG 0xe0 came back as w
smarttemp_table_requested(w, R) ==
    IF w.err # 0 THEN smarttemp_skip_sct_data(w, R)
    ELSE smarttemp_table_read(
             smarttemp_ata_command(w, SMART_READ_LOG, SCT_READ_LOG_ADDR, R.table), R)

\* smarttemp_identify_features, label skip_sct_status
smarttemp_skip_sct_status(c, have_sct_data_table, R) ==
    IF ~have_sct_data_table THEN smarttemp_skip_sct(c, R)
    ELSE smarttemp_table_requested(
             smarttemp_ata_command(RequestTable(c), SMART_WRITE_LOG, SCT_STATUS_REQ_ADDR,
                                   R.write),
             R)

\* st->have_sct_temp = buf[SCT_STATUS_TEMP] != INVALID_TEMP
SetHaveSctTemp(c) ==
    Ctx([c.st EXCEPT !.have_sct_temp = Byte(c.st.smartdata, SCT_STATUS_TEMP) # INVALID_TEMP],
        c.log)

\* smarttemp_identify_features after SMART READ LOG 0xe0 came back as x
smarttemp_status_read(x, have_sct_data_table, R) ==
    IF x.err # 0 THEN smarttemp_skip_sct_status(x, have_sct_data_table, R)
    ELSE IF SctVersion(x.st.smartdata) # 2 /\ SctVersion(x.st.smartdata) # 3
         THEN smarttemp_skip_sct_status(x, have_sct_data_table, R)
    ELSE IF ~(Byte(x.st.smartdata, SCT_STATUS_TEMP) # INVALID_TEMP)
         THEN smarttemp_skip_sct_status(SetHaveSctTemp(x), have_sct_data_table, R)
    ELSE smarttemp_skip_sct_status(SetLowestHighest(SetHaveSctTemp(x)),
                                   have_sct_data_table, R)

\* smarttemp_identify_features after IDENTIFY DEVICE came back as i
smarttemp_identified(i, have_sct_data_table, have_sct_status, R) ==
    IF i.err # 0 THEN smarttemp_skip_sct(i, R)
    ELSE IF ~have_sct_status THEN smarttemp_skip_sct_status(i, have_sct_data_table, R)
    ELSE smarttemp_status_read(
             smarttemp_ata_command(i, SMART_READ_LOG, SCT_STATUS_REQ_ADDR, R.status),
             have_sct_data_table, R)

\* the capability bits read after IDENTIFY DEVICE came back as i
smarttemp_capabilities(i, R) ==
    smarttemp_identified(i,
        BitSet(Byte(i.st.smartdata, IDENTIFY_SCT_TRANSPORT), 5),
        BitSet(Byte(i.st.smartdata, IDENTIFY_SCT_TRANSPORT), 0), R)

\* smarttemp_identify_features(st)
smarttemp_identify_features(c, R) ==
    smarttemp_capabilities(
        smarttemp_scsi_command(c, ATA_IDENTIFY_DEVICE, 0, 0, 0, 0, R.identify), R)

----------------------------------------------------------------------------
(* TemperatureSource: the hwmon callbacks *)

\* satatemp_read(dev, type, attr, channel, val)
satatemp_read(c, type, attr, rs) ==
    IF type # "hwmon_temp" THEN Res(c, -EINVAL, FALSE, 0)
    ELSE CASE attr \in {"input", "lowest", "highest"} ->
                  IF c.st.get_temp = "satatemp_get_scttemp"
                  THEN satatemp_get_scttemp(c, attr, rs.status)
                  ELSE satatemp_get_smarttemp(c, attr, rs.smart)
           [] attr = "lcrit" -> Res(c, 0, TRUE, c.st.temp_lcrit)
           [] attr = "min"   -> Res(c, 0, TRUE, c.st.temp_min)
           [] attr = "max"   -> Res(c, 0, TRUE, c.st.temp_max)
           [] attr = "crit"  -> Res(c, 0, TRUE, c.st.temp_crit)
           [] OTHER          -> Res(c, -EINVAL, FALSE, 0)

\* smarttemp_read(dev, type, attr, channel, val)
smarttemp_read(c, type, attr, rs) ==
    IF type # "hwmon_temp" THEN Res(c, -EINVAL, FALSE, 0)
    ELSE CASE attr \in {"input", "lowest", "highest"} -> smarttemp_read_temp(c, attr, rs)
           [] attr = "lcrit" -> Res(c, 0, TRUE, c.st.temp_lcrit)
           [] attr = "min"   -> Res(c, 0, TRUE, c.st.temp_min)
           [] attr = "max"   -> Res(c, 0, TRUE, c.st.temp_max)
           [] attr = "crit"  -> Res(c, 0, TRUE, c.st.temp_crit)
           [] OTHER          -> Res(c, -EINVAL, FALSE, 0)

\* every known temperature attribute visible
is_visible_Always(s, type, attr) ==
    IF type = "hwmon_temp" /\ attr \in Attrs THEN 292 ELSE 0

\* satatemp_is_visible / smarttemp_is_visible: 0444 or 0
is_visible(s, type, attr) ==
    IF type # "hwmon_temp" THEN 0
    ELSE CASE attr = "input"   -> 292
           [] attr = "lowest"  -> IF s.have_temp_lowest THEN 292 ELSE 0
           [] attr = "highest" -> IF s.have_temp_highest THEN 292 ELSE 0
           [] attr = "min"     -> IF s.have_temp_min THEN 292 ELSE 0
           [] attr = "max"     -> IF s.have_temp_max THEN 292 ELSE 0
           [] attr = "lcrit"   -> IF s.have_temp_lcrit THEN 292 ELSE 0
           [] attr = "crit"    -> IF s.have_temp_crit THEN 292 ELSE 0
           [] OTHER            -> 0

----------------------------------------------------------------------------
(* The drive: the pages it may answer with *)

\* number of leading attribute slots the generated SMART pages populate
MaxAttrs == 2

\* the record slots the generated SMART pages populate: the leading ones, the
\* last one the scan reaches and the first one it does not reach
Slots == (0..(MaxAttrs - 1)) \cup {ATA_MAX_SMART_ATTRS - 1, ATA_MAX_SMART_ATTRS}

\* attribute ids the drive reports: a placeholder, an unrelated attribute and
\* the two temperature attributes
AttrIds == {0, 9, SMART_TEMP_PROP_190, SMART_TEMP_PROP_194}

\* the low raw byte of the record in slot k: distinct for distinct slots
RawAt(k) == (45 + 155 * k) % 256

\* a SMART READ VALUES page: revision in byte 0, the record of slot k at
\* 2 + 12 * k as id, flags (2), value, worst, raw (6), reserved; the value and
\* worst bytes of a used record hold 194 and 190; checksum in byte 511
SmartPage(ids, fix) ==
    WithChecksum(
        [i \in {0} \cup {2 + 12 * k + o : k \in DOMAIN ids, o \in {0, 3, 4, 5}} |->
            LET k == (i - 2) \div 12
                o == (i - 2) % 12
            IN  IF i = 0 THEN 16
                ELSE CASE o = 0 -> ids[k]
                       [] o = 3 -> IF ids[k] # 0 THEN 194 ELSE 0
                       [] o = 4 -> IF ids[k] # 0 THEN 190 ELSE 0
                       [] o = 5 -> RawAt(k)],
        fix)

\* every page over the populated slots, with a right and a wrong checksum
SmartPagesAll == {SmartPage(ids, fix) : ids \in [Slots -> AttrIds], fix \in {0, 1}}

\* the id map with id a in slot 0, b in slot 1 and nothing elsewhere
TwoAttrs(a, b) == [k \in Slots |-> IF k = 0 THEN a ELSE IF k = 1 THEN b ELSE 0]

\* the SMART pages of the attach/read life cycle: attribute 194 with raw 45,
\* attribute 190 alone, no temperature attribute, and a corrupt page
SmartPages ==
    {SmartPage(TwoAttrs(SMART_TEMP_PROP_194, 9), 0),
     SmartPage(TwoAttrs(9, SMART_TEMP_PROP_190), 0),
     SmartPage(TwoAttrs(9, 0), 0),
     SmartPage(TwoAttrs(SMART_TEMP_PROP_194, SMART_TEMP_PROP_190), 1)}

LifeSmartPages ==
    {SmartPage(TwoAttrs(SMART_TEMP_PROP_194, 9), 0),
     SmartPage(TwoAttrs(9, 0), 0)}

\* an SCT status log page (log address 0xe0)
SctStatusPage(version, temp, lowest, highest) ==
    (SCT_STATUS_VERSION_LOW :> version % 256)
    @@ (SCT_STATUS_VERSION_HIGH :> version \div 256)
    @@ (199 :> 77)
    @@ (SCT_STATUS_TEMP :> temp)
    @@ (SCT_STATUS_TEMP_LOWEST :> lowest)
    @@ (SCT_STATUS_TEMP_HIGHEST :> highest)
    @@ (203 :> 33)

\* status pages: lowest invalid; version 3 with negative temperatures and
\* highest invalid; current temperature invalid; a version whose low byte
\* alone would pass
LifeStatusPages ==
    {SctStatusPage(2, 25, 128, 127),
     SctStatusPage(3, 246, 236, 128),
     SctStatusPage(2, 128, 16, 127),
     SctStatusPage(258, 25, 16, 127)}

StatusPages ==
    LifeStatusPages
    \cup {SctStatusPage(2, 25, 16, 127),
          SctStatusPage(2, 128, 128, 128),
          SctStatusPage(1, 25, 16, 127),
          SctStatusPage(0, 25, 16, 127)}

\* an SCT temperature history table page (log address 0xe1)
SctTablePage(max, crit, min, lcrit) ==
    (0 :> 2) @@ (5 :> 99) @@ (6 :> max) @@ (7 :> crit)
    @@ (8 :> min) @@ (9 :> lcrit) @@ (10 :> 55)

LifeTablePages ==
    {SctTablePage(127, 128, 16, 128),
     SctTablePage(128, 70, 128, 246)}

\* every combination of a valid and an invalid byte in the four limit fields
TablePages ==
    {SctTablePage(max, crit, min, lcrit) :
        max \in {128, 127}, crit \in {128, 70}, min \in {128, 16}, lcrit \in {128, 246}}

\* an IDENTIFY DEVICE page with the given word 206
IdentifyPage(word206) ==
    (IDENTIFY_SCT_TRANSPORT :> word206 % 256)
    @@ (IDENTIFY_SCT_TRANSPORT + 1 :> word206 \div 256)

\* word 206: bit 0 SCT supported, bit 5 SCT data tables supported
Word206s == {0, 1, 32, 33}

Fail == [err |-> CMD_FAILED, data |-> ZeroPage]
Ok(p) == [err |-> 0, data |-> p]
Answers(pages) == {Fail} \cup {Ok(p) : p \in pages}

\* the answers to the commands of one probe, with the pages drawn from the
\* given sets; allocation and registration fail only in the second part
AnswersOver(statuses, tables, smarts) ==
    [st_alloc : {TRUE}, vpd_alloc : {TRUE}, hwmon_err : {0},
     identify : IF driver = "smarttemp"
                THEN Answers({IdentifyPage(w) : w \in Word206s}) ELSE {Fail},
     status : Answers(statuses), write : {Fail, Ok(ZeroPage)},
     table : Answers(tables), smart : Answers(smarts)]
    \cup
    [st_alloc : BOOLEAN, vpd_alloc : BOOLEAN, hwmon_err : {0, -ENOMEM},
     identify : {Ok(IdentifyPage(0))}, status : {Fail}, write : {Fail},
     table : {Fail}, smart : {Ok(SmartPage(TwoAttrs(SMART_TEMP_PROP_194, 9), 0))}]

ProbeAnswers == AnswersOver(StatusPages, TablePages, SmartPages)

LifeAnswers == AnswersOver(LifeStatusPages, LifeTablePages, LifeSmartPages)

\* the answer to the one command a read may send
ReadAnswers(attr) ==
    IF attr \in {"input", "lowest", "highest"}
    THEN [status : Answers(LifeStatusPages), smart : {Fail}]
         \cup [status : {Fail}, smart : Answers(SmartPages)]
    ELSE [status : {Fail}, smart : {Fail}]

\* the cached inquiry data of the SCSI device
Inquiries ==
    {[present |-> FALSE, len |-> 0, vendor |-> ""],
     [present |-> TRUE, len |-> 8, vendor |-> "ATA     "],
     [present |-> TRUE, len |-> 36, vendor |-> "ATA     "],
     [present |-> TRUE, len |-> 36, vendor |-> "ATAPI   "],
     [present |-> TRUE, len |-> 36, vendor |-> "SEAGATE "]}

\* VPD page 0x89 as libata builds it for a SATA disk with the given word 206
LibataVpd(word206) ==
    [err |-> 0, origin |-> "linux   libata          ", command |-> ATA_CMD_ID_ATA,
     is_ata |-> TRUE, is_sata |-> TRUE, word206 |-> word206]

Vpds ==
    {LibataVpd(w) : w \in Word206s}
    \cup {[LibataVpd(33) EXCEPT !.err = CMD_FAILED],
          [LibataVpd(33) EXCEPT !.origin = "other   sat             "],
          [LibataVpd(33) EXCEPT !.command = 161],
          [LibataVpd(33) EXCEPT !.is_ata = FALSE],
          [LibataVpd(33) EXCEPT !.is_sata = FALSE]}

\* the devices attached: smarttemp never reads the VPD page
Sdevs(d) ==
    {[inquiry |-> q, vpd |-> LibataVpd(33)] : q \in Inquiries}
    \cup (IF d = "satatemp"
          THEN {[inquiry |-> [present |-> TRUE, len |-> 36, vendor |-> "ATA     "],
                 vpd |-> v] : v \in Vpds}
          ELSE {})

----------------------------------------------------------------------------
(* The attach/read life cycle *)

NoDevice == [freed |-> TRUE]

Init ==
    /\ driver \in {"satatemp", "smarttemp"}
    /\ char_signed \in BOOLEAN
    /\ sdev \in Sdevs(driver)
    /\ phase = "attached"
    /\ st = NoDevice
    /\ devlist = <<>>
    /\ op = [name |-> "none", type |-> "", attr |-> ""]
    /\ ret = 0
    /\ wrote = FALSE
    /\ val = 0
    /\ cmds = <<>>
    /\ probe_cmds = <<>>
    /\ scsi_cmd = ZeroBlock
    /\ devs = <<>>
    /\ calls = <<>>

\* an add that registers the device whatever the probe came back with
add_probed_Anyway(i, R) ==
    IF R.hwmon_err # 0
    THEN [reg |-> FALSE, st |-> NoDevice, log |-> i.log, err |-> R.hwmon_err]
    ELSE [reg |-> TRUE, st |-> i.st, log |-> i.log, err |-> 0]

\* satatemp_add / smarttemp_add after the probe came back as i
add_probed(i, R) ==
    IF i.err # 0 THEN [reg |-> FALSE, st |-> NoDevice, log |-> i.log, err |-> -ENODEV]
    ELSE IF R.hwmon_err # 0
         THEN [reg |-> FALSE, st |-> NoDevice, log |-> i.log, err |-> R.hwmon_err]
    ELSE [reg |-> TRUE, st |-> i.st, log |-> i.log, err |-> 0]

\* satatemp_add(dev, intf)
satatemp_add(dev, R) ==
    IF ~R.st_alloc THEN [reg |-> FALSE, st |-> NoDevice, log |-> <<>>, err |-> -ENOMEM]
    ELSE add_probed(satatemp_identify(Ctx(satatemp_data, <<>>), dev, R), R)

\* smarttemp_add(dev, intf)
smarttemp_add(dev, R) ==
    IF smarttemp_identify_ata(dev) # 0
    THEN [reg |-> FALSE, st |-> NoDevice, log |-> <<>>, err |-> smarttemp_identify_ata(dev)]
    ELSE IF ~R.st_alloc
         THEN [reg |-> FALSE, st |-> NoDevice, log |-> <<>>, err |-> -ENOMEM]
    ELSE add_probed(smarttemp_identify_features(Ctx(smarttemp_data, <<>>), R), R)

\* the state after the add callback handed back a
Added(a) ==
    /\ phase' = IF a.reg THEN "registered" ELSE "rejected"
    /\ st' = a.st
    /\ devlist' = IF a.reg THEN <<"sdev">> \o devlist ELSE devlist
    /\ op' = [name |-> "add", type |-> "", attr |-> ""]
    /\ ret' = a.err
    /\ wrote' = FALSE
    /\ val' = 0
    /\ cmds' = a.log
    /\ probe_cmds' = a.log
    /\ scsi_cmd' = LastBlock(a.log, scsi_cmd)
    /\ UNCHANGED <<driver, char_signed, sdev, devs, calls>>

\* the add_dev callback of the class interface, the drive answering from A
AddWith(A) ==
    /\ phase = "attached"
    /\ \E R \in A :
          Added(IF driver = "satatemp" THEN satatemp_add(sdev, R)
                ELSE smarttemp_add(sdev, R))

Add == AddWith(LifeAnswers)

\* the attributes of satatemp_info / smarttemp_info, one temperature attribute
\* the drivers do not know, and one attribute of the chip type
ReadCalls ==
    {[type |-> "hwmon_temp", attr |-> a] : a \in Attrs \cup {"offset"}}
    \cup {[type |-> "hwmon_chip", attr |-> "input"]}

\* the state after the read callback for call k handed back r
ReadDone(k, r) ==
    /\ st' = r.st
    /\ op' = [name |-> "read", type |-> k.type, attr |-> k.attr]
    /\ ret' = r.err
    /\ wrote' = r.wrote
    /\ val' = r.val
    /\ cmds' = r.log
    /\ scsi_cmd' = LastBlock(r.log, scsi_cmd)
    /\ UNCHANGED <<driver, char_signed, sdev, phase, devlist, probe_cmds, devs, calls>>

\* the read callback of the hwmon operations: hwmon creates an attribute, and
\* calls read for it, only where is_visible returned a mode
Read ==
    /\ phase = "registered"
    /\ \E k \in ReadCalls :
          /\ is_visible(st, k.type, k.attr) # 0
          /\ \E rs \in ReadAnswers(k.attr) :
              ReadDone(k, IF driver = "satatemp"
                          THEN satatemp_read(Ctx(st, <<>>), k.type, k.attr, rs)
                          ELSE smarttemp_read(Ctx(st, <<>>), k.type, k.attr, rs))

\* the remove_dev callback of the class interface
Remove ==
    /\ phase \in {"registered", "rejected"}
    /\ phase' = "removed"
    /\ st' = NoDevice
    /\ devlist' = SelectSeq(devlist, LAMBDA d : d # "sdev")
    /\ op' = [name |-> "remove", type |-> "", attr |-> ""]
    /\ ret' = 0
    /\ wrote' = FALSE
    /\ val' = 0
    /\ cmds' = <<>>
    /\ UNCHANGED <<driver, char_signed, sdev, probe_cmds, scsi_cmd, devs, calls>>

Next == Add \/ Read \/ Remove

Spec == Init /\ [][Next]_vars

----------------------------------------------------------------------------
(* The probe alone, over every page the drive may answer with *)

Probe == AddWith(ProbeAnswers)

NextProbe == Probe \/ Remove

SpecProbe == Init /\ [][NextProbe]_vars

----------------------------------------------------------------------------
(* The SMART decoder alone, over every generated attribute page *)

\* the device has no SCT support: the probe is at its last step, SMART READ
\* VALUES has been sent and the drive has answered with r
SmartCommandSent(r) ==
    IF driver = "satatemp"
    THEN satatemp_ata_command(
             Ctx([satatemp_data EXCEPT !.get_temp = "satatemp_get_smarttemp"], <<>>),
             ATA_SMART_READ_VALUES, 0, r)
    ELSE smarttemp_ata_command(
             smarttemp_scsi_command(Ctx(smarttemp_data, <<>>), ATA_IDENTIFY_DEVICE,
                                    0, 0, 0, 0, Ok(IdentifyPage(0))),
             ATA_SMART_READ_VALUES, 0, r)

InitSmartAt(x) ==
    /\ st = x.st
    /\ cmds = x.log
    /\ probe_cmds = x.log
    /\ scsi_cmd = LastBlock(x.log, ZeroBlock)
    /\ devs = <<>>
    /\ calls = <<>>
    /\ ret = x.err

InitSmart ==
    /\ driver \in {"satatemp", "smarttemp"}
    /\ char_signed \in BOOLEAN
    /\ sdev = [inquiry |-> [present |-> TRUE, len |-> 36, vendor |-> "ATA     "],
               vpd |-> LibataVpd(0)]
    /\ phase = "attached"
    /\ devlist = <<>>
    /\ op = [name |-> "get_smarttemp", type |-> "hwmon_temp", attr |-> "input"]
    /\ wrote = FALSE
    /\ val = 0
    /\ \E r \in Answers(SmartPagesAll) : InitSmartAt(SmartCommandSent(r))

\* the state after the decoder handed back d
SmartDecoded(d) ==
    /\ op' = [op EXCEPT !.name = "get_smarttemp_done"]
    /\ ret' = d.err
    /\ wrote' = d.wrote
    /\ val' = d.val
    /\ UNCHANGED <<driver, char_signed, sdev, phase, st, devlist, cmds, probe_cmds,
                   scsi_cmd, devs, calls>>

\* satatemp_get_smarttemp / smarttemp_read_smarttemp from "if (err)" to return
SmartDecode ==
    /\ op.name = "get_smarttemp"
    /\ SmartDecoded(DecodeSmart([st |-> st, log |-> cmds, err |-> ret]))

NextSmart == SmartDecode

SpecSmart == InitSmart /\ [][NextSmart]_vars

----------------------------------------------------------------------------
(* Properties of the SMART decoder *)

\* the sum of all bytes of a page, modulo 256
PageSum(buf) == SumOver(buf, DOMAIN buf) % 256

\* the 30 records the decoder scans; record k has its id at byte 12 * k + 2
\* and its raw byte at 12 * k + 7
Scanned == 0..29
IdOf(buf, k) == Byte(buf, 12 * k + 2)
RawOf(buf, k) == Byte(buf, 12 * k + 7)
Records(buf, id) == {k \in Scanned : IdOf(buf, k) = id}
First(S) == CHOOSE k \in S : \A j \in S : k <= j
Last(S) == CHOOSE k \in S : \A j \in S : j <= k

\* the decoder has run on the page the drive answered SMART READ VALUES with
SmartDecoderRan ==
    /\ op.name = "get_smarttemp_done"
    /\ cmds[Len(cmds)].err = 0

\* C1: a page with checksum 0 that holds attribute 194 and attribute 190 among
\* its 30 scanned records decodes, with success, to the raw byte of the (first)
\* attribute-194 record times 1000, wherever the 190 records are.
C1_Prefer194 ==
    (/\ SmartDecoderRan
     /\ PageSum(st.smartdata) = 0
     /\ Records(st.smartdata, 194) # {}
     /\ Records(st.smartdata, 190) # {})
    => (/\ ret = 0
        /\ wrote
        /\ val = RawOf(st.smartdata, First(Records(st.smartdata, 194))) * 1000)

\* attribute 190 in the first slot, attribute 194 in the last scanned slot
C1_Witness ==
    /\ SmartDecoderRan
    /\ PageSum(st.smartdata) = 0
    /\ IdOf(st.smartdata, 0) = 190
    /\ Records(st.smartdata, 194) = {29}
    /\ ret = 0 /\ wrote /\ val = RawAt(29) * 1000

\* C2: a page with checksum 0 that holds attribute 190 and no attribute 194
\* among its 30 scanned records decodes, with success, to the raw byte of the
\* (last) attribute-190 record times 1000.
C2_Only190 ==
    (/\ SmartDecoderRan
     /\ PageSum(st.smartdata) = 0
     /\ Records(st.smartdata, 194) = {}
     /\ Records(st.smartdata, 190) # {})
    => (/\ ret = 0
        /\ wrote
        /\ val = RawOf(st.smartdata, Last(Records(st.smartdata, 190))) * 1000)

\* attribute 190 in slot 1 only, its raw byte above 127
C2_Witness ==
    /\ SmartDecoderRan
    /\ PageSum(st.smartdata) = 0
    /\ Records(st.smartdata, 194) = {}
    /\ Records(st.smartdata, 190) = {1}
    /\ ret = 0 /\ wrote /\ val = 200000

\* C3: a page whose 512 bytes do not sum to 0 modulo 256 makes the decode fail
\* with -EIO and leaves the value unwritten, whatever records it holds.
C3_ChecksumError ==
    (SmartDecoderRan /\ PageSum(st.smartdata) # 0) => (ret = -EIO /\ ~wrote)

\* a corrupt page that holds a 194 record
C3_Witness ==
    /\ SmartDecoderRan
    /\ PageSum(st.smartdata) # 0
    /\ IdOf(st.smartdata, 0) = 194
    /\ ret = -EIO /\ ~wrote

\* C4: a page with checksum 0 that holds neither attribute 190 nor attribute
\* 194 among its 30 scanned records makes the decode fail with -ENXIO and
\* leaves the value unwritten.
C4_NoSensor ==
    (/\ SmartDecoderRan
     /\ PageSum(st.smartdata) = 0
     /\ Records(st.smartdata, 194) = {}
     /\ Records(st.smartdata, 190) = {})
    => (ret = -ENXIO /\ ~wrote)

\* attribute 194 sits in the record after the last scanned one
C4_Witness ==
    /\ SmartDecoderRan
    /\ PageSum(st.smartdata) = 0
    /\ Records(st.smartdata, 194) = {} /\ Records(st.smartdata, 190) = {}
    /\ IdOf(st.smartdata, 30) = 194
    /\ IdOf(st.smartdata, 0) = 9
    /\ ret = -ENXIO /\ ~wrote

----------------------------------------------------------------------------
(* The registered device *)

\* the commands of a log that are SMART commands with this feature and log
\* address
LogOf(log, feature, select) ==
    {i \in 1..Len(log) : /\ log[i].cmd[14] = ATA_CMD_SMART
                         /\ log[i].cmd[4] = feature
                         /\ log[i].cmd[8] = select}

\* the pages the probe read with success from a log address
ProbeRead(select) ==
    {probe_cmds[i].data : i \in {j \in LogOf(probe_cmds, SMART_READ_LOG, select) :
                                    probe_cmds[j].err = 0}}

SctMode ==
    /\ phase = "registered"
    /\ IF driver = "satatemp" THEN st.get_temp = "satatemp_get_scttemp"
       ELSE st.have_sct_temp

SmartMode ==
    /\ phase = "registered"
    /\ IF driver = "satatemp" THEN st.get_temp = "satatemp_get_smarttemp"
       ELSE ~st.have_sct_temp

Live == {"input", "lowest", "highest"}
Limits == {"min", "max", "lcrit", "crit"}

\* where a metric sits in the SCT status page and in the SCT data table
OffsetOf(attr) ==
    CASE attr = "input" -> 200 [] attr = "lowest" -> 201 [] attr = "highest" -> 202
      [] attr = "max" -> 6 [] attr = "crit" -> 7 [] attr = "min" -> 8
      [] attr = "lcrit" -> 9

FlagOf(s, attr) ==
    CASE attr = "lowest" -> s.have_temp_lowest [] attr = "highest" -> s.have_temp_highest
      [] attr = "max" -> s.have_temp_max [] attr = "crit" -> s.have_temp_crit
      [] attr = "min" -> s.have_temp_min [] attr = "lcrit" -> s.have_temp_lcrit

CachedOf(s, attr) ==
    CASE attr = "max" -> s.temp_max [] attr = "crit" -> s.temp_crit
      [] attr = "min" -> s.temp_min [] attr = "lcrit" -> s.temp_lcrit

\* a read of a live metric in SCT mode whose one command brought a page back
SctReadDone ==
    /\ op.name = "read" /\ op.attr \in Live
    /\ SctMode
    /\ Len(cmds) = 1 /\ cmds[1].err = 0

\* C5: a status page whose byte 200 is 0x80 never makes the probe select SCT
\* mode, and a read of Input, Lowest or Highest in SCT mode whose page holds a
\* byte other than 0x80 at offset 200, 201 or 202 returns that byte, taken as
\* a signed 8-bit number, times 1000.
C5_SctDecoding ==
    /\ (phase = "registered"
        /\ \E p \in ProbeRead(SCT_STATUS_REQ_ADDR) : Byte(p, 200) = 128)
       => ~SctMode
    /\ (SctReadDone /\ Byte(cmds[1].data, OffsetOf(op.attr)) # 128)
       => (/\ ret = 0
           /\ wrote
           /\ val = s8(Byte(cmds[1].data, OffsetOf(op.attr))) * 1000)

\* C6: no read of Input, Lowest or Highest in SCT mode hands back the value
\* -128000 for a raw byte 0x80.
C6_SentinelNotReported ==
    ~(/\ SctReadDone
      /\ Byte(cmds[1].data, OffsetOf(op.attr)) = 128
      /\ ret = 0 /\ wrote /\ val = -128000)

\* C7: on a device whose probe ended in the SMART fallback a read of Input
\* returns the value decoded from the SMART page the drive answers with, and
\* a read of Lowest or Highest fails and writes no value.
C7_FallbackReads ==
    (op.name = "read" /\ SmartMode)
    => /\ (/\ op.attr = "input"
           /\ Len(cmds) = 1 /\ cmds[1].err = 0
           /\ PageSum(cmds[1].data) = 0
           /\ Records(cmds[1].data, 194) # {})
          => (/\ ret = 0 /\ wrote
              /\ val = RawOf(cmds[1].data, First(Records(cmds[1].data, 194))) * 1000)
       /\ op.attr \in {"lowest", "highest"} => (ret # 0 /\ ~wrote)

C9_BadVersion ==
    (/\ phase = "registered"
     /\ \E p \in ProbeRead(SCT_STATUS_REQ_ADDR) :
           Byte(p, 0) + 256 * Byte(p, 1) \notin {2, 3})
    => /\ SmartMode
       /\ LogOf(probe_cmds, SMART_WRITE_LOG, SCT_STATUS_REQ_ADDR) = {}
       /\ LogOf(probe_cmds, SMART_READ_LOG, SCT_READ_LOG_ADDR) = {}
       /\ \A a \in Limits \cup {"lowest", "highest"} : ~FlagOf(st, a)
       /\ (op.name = "read" /\ op.attr = "input")
          => (Len(cmds) = 1 /\ cmds[1].cmd[4] = ATA_SMART_READ_VALUES)

\* C10: on a device registered by a probe that read the SCT data table, each
\* of have_temp_max, have_temp_crit, have_temp_min, have_temp_lcrit is true
\* exactly when byte 6, 7, 8, 9 of the table is not 0x80, whatever the other
\* three bytes are, and each accepted limit is the signed byte times 1000.
C10_LimitFlags ==
    phase = "registered"
    => \A p \in ProbeRead(SCT_READ_LOG_ADDR) : \A a \in Limits :
          /\ FlagOf(st, a) <=> (Byte(p, OffsetOf(a)) # 128)
          /\ FlagOf(st, a) => CachedOf(st, a) = s8(Byte(p, OffsetOf(a))) * 1000

\* table bytes 6..9 = 0x7F, 0x80, 0x10, 0x80
C10_Witness ==
    /\ phase = "registered"
    /\ \E p \in ProbeRead(SCT_READ_LOG_ADDR) :
          <<Byte(p, 6), Byte(p, 7), Byte(p, 8), Byte(p, 9)>> = <<127, 128, 16, 128>>
    /\ st.have_temp_max /\ st.temp_max = 127000
    /\ ~st.have_temp_crit
    /\ st.have_temp_min /\ st.temp_min = 16000
    /\ ~st.have_temp_lcrit

\* an SCT-mode read of Input for byte 0xF6 where plain char is unsigned
C5_Witness ==
    /\ SctReadDone /\ op.attr = "input"
    /\ Byte(cmds[1].data, 200) = 246
    /\ ~char_signed
    /\ ret = 0 /\ wrote /\ val = 246000

\* an SCT-mode read of Input for byte 0x80
C6_Witness ==
    /\ SctReadDone /\ op.attr = "input"
    /\ Byte(cmds[1].data, 200) = 128
    /\ ret = 0 /\ wrote /\ val = -128000

\* a read of Highest handing back the SMART temperature in fallback mode
C7_Witness ==
    /\ op.name = "read" /\ op.attr = "highest"
    /\ SmartMode
    /\ ret = 0 /\ wrote /\ val = 45000

\* a device in fallback mode, after a status page of a bad version, that sent
\* the data-table commands and has limit flags set
C9_Witness ==
    /\ SmartMode
    /\ \E p \in ProbeRead(SCT_STATUS_REQ_ADDR) : Byte(p, 0) + 256 * Byte(p, 1) = 258
    /\ LogOf(probe_cmds, SMART_READ_LOG, SCT_READ_LOG_ADDR) # {}
    /\ st.have_temp_max /\ st.have_temp_min

----------------------------------------------------------------------------
(* The command builder alone, over register values of every kind *)

\* the arguments of satatemp_scsi_command / smarttemp_scsi_command
BuildArgs ==
    [ata_command : {ATA_CMD_SMART, ATA_CMD_ID_ATA, 0},
     feature : {SMART_READ_LOG, SMART_WRITE_LOG, ATA_SMART_READ_VALUES, 0},
     lba_low : {SCT_STATUS_REQ_ADDR, SCT_READ_LOG_ADDR, 0},
     lba_mid : {ATA_SMART_LBAM_PASS, 0},
     lba_high : {ATA_SMART_LBAH_PASS, 0}]

\* a device record just allocated, about to be sent one command
InitBuild ==
    /\ driver \in {"satatemp", "smarttemp"}
    /\ char_signed = TRUE
    /\ sdev = [inquiry |-> [present |-> TRUE, len |-> 36, vendor |-> "ATA     "],
               vpd |-> LibataVpd(33)]
    /\ phase = "attached"
    /\ st = IF driver = "satatemp" THEN satatemp_data ELSE smarttemp_data
    /\ devlist = <<>>
    /\ \E k \in BuildArgs : op = [name |-> "scsi_command", args |-> k]
    /\ ret = 0
    /\ wrote = FALSE
    /\ val = 0
    /\ cmds = <<>>
    /\ probe_cmds = <<>>
    /\ scsi_cmd = ZeroBlock
    /\ devs = <<>>
    /\ calls = <<>>

\* the state after the command came back as x
CommandDone(x) ==
    /\ st' = x.st
    /\ cmds' = x.log
    /\ ret' = x.err
    /\ op' = [op EXCEPT !.name = "scsi_command_done"]
    /\ scsi_cmd' = LastBlock(x.log, scsi_cmd)
    /\ UNCHANGED <<driver, char_signed, sdev, phase, devlist, wrote, val, probe_cmds,
                   devs, calls>>

\* satatemp_scsi_command / smarttemp_scsi_command, the drive answering with r
ScsiCommand ==
    /\ op.name = "scsi_command"
    /\ \E r \in {Fail, Ok(SctStatusPage(2, 25, 16, 127))} :
          CommandDone(IF driver = "satatemp"
                      THEN satatemp_scsi_command(Ctx(st, cmds), op.args.ata_command,
                               op.args.feature, op.args.lba_low, op.args.lba_mid,
                               op.args.lba_high, r)
                      ELSE smarttemp_scsi_command(Ctx(st, cmds), op.args.ata_command,
                               op.args.feature, op.args.lba_low, op.args.lba_mid,
                               op.args.lba_high, r))

NextBuild == ScsiCommand

SpecBuild == InitBuild /\ [][NextBuild]_vars

----------------------------------------------------------------------------
(* Properties of the command builder *)

\* a command has been built from op.args and submitted
Built == op.name = "scsi_command_done" /\ Len(cmds) = 1

\* SMART READ LOG of log address 0xe0; SMART WRITE LOG
ReadLogE0(k) ==
    k.ata_command = ATA_CMD_SMART /\ k.feature = SMART_READ_LOG /\ k.lba_low = 224
WriteLog(k) == k.ata_command = ATA_CMD_SMART /\ k.feature = SMART_WRITE_LOG

\* C11 as stated: a READ LOG command for address 0xe0 is data-in with sector
\* count 1 and feature register 0xe0, and a WRITE LOG command is data-out.
C11_FeatureE0 ==
    Built => /\ ReadLogE0(op.args)
                => (/\ cmds[1].data_dir = "DMA_FROM_DEVICE"
                    /\ cmds[1].cmd[6] = 1
                    /\ cmds[1].cmd[4] = 224)
             /\ WriteLog(op.args) => cmds[1].data_dir = "DMA_TO_DEVICE"

\* C11: a READ LOG command for address 0xe0 is data-in with sector count 1,
\* feature register 0xd5 (SMART READ LOG) and the log address 0xe0 in the LBA
\* low register; a WRITE LOG command is data-out.
C11_ReadLogBlock ==
    Built => /\ ReadLogE0(op.args)
                => (/\ cmds[1].data_dir = "DMA_FROM_DEVICE"
                    /\ cmds[1].cmd[6] = 1
                    /\ cmds[1].cmd[4] = 213
                    /\ cmds[1].cmd[8] = 224
                    /\ cmds[1].cmd[14] = 176)
             /\ WriteLog(op.args) => cmds[1].data_dir = "DMA_TO_DEVICE"

\* READ LOG of 0xe0 with the SMART pass-through markers, built and submitted
C11_Witness ==
    /\ Built
    /\ ReadLogE0(op.args) /\ op.args.lba_mid = 79 /\ op.args.lba_high = 194
    /\ cmds[1].data_dir = "DMA_FROM_DEVICE"
    /\ cmds[1].cmd[4] = 213 /\ cmds[1].cmd[6] = 1 /\ cmds[1].cmd[8] = 224

----------------------------------------------------------------------------
(* Properties of the probe *)

\* the cached inquiry data is missing, shorter than 16 bytes, or its vendor
\* field is not "ATA" padded to 8 bytes
BadInquiry(d) ==
    \/ ~d.inquiry.present
    \/ d.inquiry.len < 16
    \/ d.inquiry.vendor # "ATA     "

\* C12: a device with bad inquiry data is never sent a command, never
\* registered and never put on the device list; its add fails with -ENODEV
\* (satatemp_add, which allocates the record before it probes, fails with
\* -ENOMEM instead when that allocation fails) and frees the record.
C12_NotAtaRejected ==
    BadInquiry(sdev)
    => /\ phase # "registered"
       /\ devlist = <<>>
       /\ cmds = <<>> /\ probe_cmds = <<>>
       /\ op.name = "add"
          => (/\ phase = "rejected"
              /\ st = NoDevice
              /\ ret = -ENODEV \/ (driver = "satatemp" /\ ret = -ENOMEM))

\* an ATAPI device turned away with -ENODEV
C12_Witness ==
    /\ op.name = "add"
    /\ sdev.inquiry.present /\ sdev.inquiry.len = 36 /\ sdev.inquiry.vendor = "ATAPI   "
    /\ phase = "rejected" /\ ret = -ENODEV
    /\ cmds = <<>> /\ devlist = <<>>

\* C13: on every registered device whose probe ended in the SMART fallback
\* none of have_temp_lowest, have_temp_highest, have_temp_min, have_temp_max,
\* have_temp_lcrit, have_temp_crit is set.
C13_FallbackNoFlags ==
    SmartMode => \A a \in Limits \cup {"lowest", "highest"} : ~FlagOf(st, a)

\* a satatemp device in fallback mode that has the lowest and highest flags
\* of the status page its probe read, and sent no data-table command
C13_Witness ==
    /\ driver = "satatemp"
    /\ SmartMode
    /\ st.have_temp_lowest /\ st.have_temp_highest
    /\ LogOf(probe_cmds, SMART_WRITE_LOG, SCT_STATUS_REQ_ADDR) = {}
    /\ \E p \in ProbeRead(SCT_STATUS_REQ_ADDR) :
          Byte(p, 0) = 2 /\ Byte(p, 200) = 25 /\ Byte(p, 201) = 16 /\ Byte(p, 202) = 127

\* the SMART READ VALUES commands of the probe, and whether a page decodes
ProbeSmartReads == LogOf(probe_cmds, ATA_SMART_READ_VALUES, 0)
Decodable(p) ==
    PageSum(p) = 0 /\ Records(p, 194) \cup Records(p, 190) # {}

\* the probe's SMART READ VALUES failed, or brought back a page with a wrong
\* checksum or without attribute 190 and 194
FallbackFailed ==
    \E i \in ProbeSmartReads :
        probe_cmds[i].err # 0 \/ ~Decodable(probe_cmds[i].data)

\* a status page with version 2 or 3 and a current temperature
ValidStatus(p) ==
    /\ Byte(p, 0) + 256 * Byte(p, 1) \in {2, 3}
    /\ Byte(p, 200) # 128

\* C14: a probe whose SMART READ VALUES step failed never registers the device:
\* add returns an error, frees the record and leaves the device list as it
\* was; and every registered device had, at probe time, a valid SCT current
\* temperature or a SMART page that decoded.
C14_FallbackFailure ==
    /\ FallbackFailed
       => (/\ phase # "registered"
           /\ devlist = <<>>
           /\ op.name = "add"
              => (phase = "rejected" /\ ret = -ENODEV /\ st = NoDevice))
    /\ phase = "registered"
       => (\/ \E p \in ProbeRead(SCT_STATUS_REQ_ADDR) : ValidStatus(p)
           \/ \E i \in ProbeSmartReads :
                 probe_cmds[i].err = 0 /\ Decodable(probe_cmds[i].data))

\* an add turned away because the SMART page of the fallback had a wrong
\* checksum, though it held attribute 194
C14_Witness ==
    /\ op.name = "add"
    /\ \E i \in ProbeSmartReads :
          /\ probe_cmds[i].err = 0
          /\ PageSum(probe_cmds[i].data) # 0
          /\ Records(probe_cmds[i].data, 194) # {}
    /\ phase = "rejected" /\ ret = -ENODEV /\ st = NoDevice /\ devlist = <<>>

\* the probe's data-table request or data-table read failed
TableStepFailed ==
    \/ \E i \in LogOf(probe_cmds, SMART_WRITE_LOG, SCT_STATUS_REQ_ADDR) :
          probe_cmds[i].err # 0
    \/ \E i \in LogOf(probe_cmds, SMART_READ_LOG, SCT_READ_LOG_ADDR) :
          probe_cmds[i].err # 0

\* C15: after a probe that read a valid status page and whose data-table step
\* failed, add has registered the device in SCT mode, with the lowest and
\* highest flags of the status page, no limit flag, and no SMART READ VALUES
\* command sent.
C15_TableFailure ==
    (/\ op.name = "add"
     /\ TableStepFailed
     /\ \E p \in ProbeRead(SCT_STATUS_REQ_ADDR) : ValidStatus(p))
    => /\ ret = 0
       /\ SctMode
       /\ \A p \in ProbeRead(SCT_STATUS_REQ_ADDR) :
             /\ st.have_temp_lowest <=> Byte(p, 201) # 128
             /\ st.have_temp_highest <=> Byte(p, 202) # 128
       /\ \A a \in Limits : ~FlagOf(st, a)
       /\ ProbeSmartReads = {}

\* the request was accepted and the read of log 0xe1 failed
C15_Witness ==
    /\ op.name = "add"
    /\ \E i \in LogOf(probe_cmds, SMART_WRITE_LOG, SCT_STATUS_REQ_ADDR) :
          probe_cmds[i].err = 0
    /\ \E i \in LogOf(probe_cmds, SMART_READ_LOG, SCT_READ_LOG_ADDR) :
          probe_cmds[i].err # 0
    /\ SctMode /\ ret = 0
    /\ ~st.have_temp_lowest /\ st.have_temp_highest
    /\ ~st.have_temp_max /\ ~st.have_temp_min
    /\ ProbeSmartReads = {}

----------------------------------------------------------------------------
(* Two callers at once: reads of registered devices. Neither driver takes a
   lock, and scsi_execute_req sleeps, so a read is three steps that another
   read may run between: the command block is built in the static scsi_cmd,
   the block is submitted and the page lands in the device's smartdata, and
   smartdata is decoded. *)

Callers == {1, 2}
Devices == {1, 2}

\* a registered device in the given reporting mode
RaceDevice(mode) ==
    IF driver = "satatemp"
    THEN [satatemp_data EXCEPT !.get_temp = IF mode = "sct" THEN "satatemp_get_scttemp"
                                            ELSE "satatemp_get_smarttemp"]
    ELSE [smarttemp_data EXCEPT !.have_sct_temp = (mode = "sct")]

\* st->get_temp == satatemp_get_scttemp / st->have_sct_temp
IsSct(s) ==
    IF driver = "satatemp" THEN s.get_temp = "satatemp_get_scttemp" ELSE s.have_sct_temp

\* the command a read of a live metric builds for device record s
ReadCommand(s) ==
    IF driver = "satatemp"
    THEN satatemp_build(ATA_CMD_SMART,
                        IF IsSct(s) THEN SMART_READ_LOG ELSE ATA_SMART_READ_VALUES,
                        IF IsSct(s) THEN SCT_STATUS_REQ_ADDR ELSE 0,
                        ATA_SMART_LBAM_PASS, ATA_SMART_LBAH_PASS)
    ELSE smarttemp_build(ATA_CMD_SMART,
                         IF IsSct(s) THEN SMART_READ_LOG ELSE ATA_SMART_READ_VALUES,
                         IF IsSct(s) THEN SCT_STATUS_REQ_ADDR ELSE 0,
                         ATA_SMART_LBAM_PASS, ATA_SMART_LBAH_PASS)

\* a read of temp1_input that has entered the read callback for device d
NewCall(d) ==
    [pc |-> "called", dev |-> d, attr |-> "input", data_dir |-> "",
     cmd |-> ZeroBlock, err |-> 0, page |-> ZeroPage, decoded |-> ZeroPage,
     ret |-> 0, wrote |-> FALSE, val |-> 0]

\* what the drive answers to the block it is sent: the SCT status log to
\* SMART READ LOG, the attribute page to anything else, two temperatures each
RaceAnswers(block) ==
    IF block[4] = SMART_READ_LOG
    THEN {Fail, Ok(SctStatusPage(2, 25, 16, 127)), Ok(SctStatusPage(2, 40, 16, 127))}
    ELSE {Fail, Ok(SmartPage(TwoAttrs(SMART_TEMP_PROP_194, 9), 0)),
          Ok(SmartPage(TwoAttrs(9, SMART_TEMP_PROP_194), 0))}

InitRace ==
    /\ driver \in {"satatemp", "smarttemp"}
    /\ char_signed = TRUE
    /\ sdev = [inquiry |-> [present |-> TRUE, len |-> 36, vendor |-> "ATA     "],
               vpd |-> LibataVpd(33)]
    /\ phase = "registered"
    /\ st = NoDevice
    /\ devlist = <<"sdev", "sdev">>
    /\ op = [name |-> "read", type |-> "hwmon_temp", attr |-> "input"]
    /\ ret = 0
    /\ wrote = FALSE
    /\ val = 0
    /\ cmds = <<>>
    /\ probe_cmds = <<>>
    /\ scsi_cmd = ZeroBlock
    /\ \E modes \in [Devices -> {"sct", "smart"}] :
          devs = [d \in Devices |-> RaceDevice(modes[d])]
    /\ \E d \in Devices :
          calls = [c \in Callers |-> NewCall(IF c = 1 THEN 1 ELSE d)]

RaceFrame ==
    UNCHANGED <<driver, char_signed, sdev, phase, st, devlist, op, ret, wrote, val,
                cmds, probe_cmds>>

\* satatemp_scsi_command / smarttemp_scsi_command from memset to the last
\* store into scsi_cmd
Build(c) ==
    /\ calls[c].pc = "called"
    /\ scsi_cmd' = ReadCommand(devs[calls[c].dev]).cmd
    /\ calls' = [calls EXCEPT ![c].pc = "built",
                              ![c].data_dir = ReadCommand(devs[calls[c].dev]).data_dir]
    /\ UNCHANGED devs
    /\ RaceFrame

\* the state after caller c's scsi_execute_req came back as x
Executed(c, x) ==
    /\ devs' = [devs EXCEPT ![calls[c].dev] = x.st]
    /\ calls' = [calls EXCEPT ![c].pc = "executed",
                              ![c].cmd = x.log[1].cmd,
                              ![c].err = x.err,
                              ![c].page = x.log[1].data]
    /\ UNCHANGED scsi_cmd
    /\ RaceFrame

\* scsi_execute_req(st->sdev, scsi_cmd, data_dir, st->smartdata, ...): the
\* block sent is what scsi_cmd holds now
Execute(c) ==
    /\ calls[c].pc = "built"
    /\ \E r \in RaceAnswers(scsi_cmd) :
          Executed(c, scsi_execute_req(Ctx(devs[calls[c].dev], <<>>),
                                       [cmd |-> scsi_cmd,
                                        data_dir |-> calls[c].data_dir], r))

\* the state after caller c's decoder handed back d
Decoded(c, d) ==
    /\ calls' = [calls EXCEPT ![c].pc = "returned",
                              ![c].decoded = devs[calls[c].dev].smartdata,
                              ![c].ret = d.err,
                              ![c].wrote = d.wrote,
                              ![c].val = d.val]
    /\ UNCHANGED <<scsi_cmd, devs>>
    /\ RaceFrame

\* satatemp_get_scttemp / satatemp_get_smarttemp after the command: what
\* smartdata holds now is decoded
Decode(c) ==
    /\ calls[c].pc = "executed"
    /\ Decoded(c, IF IsSct(devs[calls[c].dev])
                  THEN DecodeSct([st |-> devs[calls[c].dev], log |-> <<>>,
                                  err |-> calls[c].err], calls[c].attr)
                  ELSE DecodeSmart([st |-> devs[calls[c].dev], log |-> <<>>,
                                    err |-> calls[c].err]))

NextRace ==
    \/ \E c \in Callers : Build(c)
    \/ \E c \in Callers : Execute(c)
    \/ \E c \in Callers : Decode(c)

SpecRace == InitRace /\ [][NextRace]_vars

----------------------------------------------------------------------------
(* Properties of concurrent callers *)

SameDevice == calls[1].dev = calls[2].dev

\* C16: when two reads of one device interleave, each read that got a page
\* back decodes the page its own command returned.
C16_OwnPage ==
    SameDevice
    => \A c \in Callers :
          (calls[c].pc = "returned" /\ calls[c].err = 0)
          => calls[c].decoded = calls[c].page

\* caller 1 was answered 25 degrees by the SCT status log and returns the 40
\* degrees of the page of caller 2
C16_Witness ==
    /\ SameDevice
    /\ calls[1].pc = "returned"
    /\ calls[1].err = 0 /\ Byte(calls[1].page, 200) = 25
    /\ calls[2].err = 0 /\ Byte(calls[2].page, 200) = 40
    /\ calls[1].ret = 0 /\ calls[1].wrote /\ calls[1].val = 40000

\* C17: when reads of two different devices run in parallel, the command
\* block each submits is the block built from its own arguments.
C17_OwnBlock ==
    ~SameDevice
    => \A c \in Callers :
          calls[c].pc \in {"executed", "returned"}
          => calls[c].cmd = ReadCommand(devs[calls[c].dev]).cmd

\* the read of the SCT-mode device 1 submitted the SMART READ VALUES block
\* that the read of the fallback-mode device 2 built
C17_Witness ==
    /\ ~SameDevice
    /\ IsSct(devs[1]) /\ ~IsSct(devs[2])
    /\ calls[1].pc = "returned"
    /\ calls[1].cmd[4] = 208 /\ calls[1].cmd[8] = 0
    /\ calls[2].pc = "built"

----------------------------------------------------------------------------
(* Properties of the device record *)

\* the capability record: every field of the device record but the scratch
\* page
Capabilities(s) == [f \in (DOMAIN s) \ {"smartdata"} |-> s[f]]

\* C18: while a device stays registered no step (the reads are the only ones)
\* changes its reporting mode, any have_temp_ flag or any cached limit, and
\* the probe sends no further command.
C18_Immutable ==
    [][(phase = "registered" /\ phase' = "registered")
       => (/\ Capabilities(st') = Capabilities(st)
           /\ probe_cmds' = probe_cmds)]_vars

\* a read has put a new page into smartdata of a device that still has the
\* limits its probe cached
C18_Witness ==
    /\ op.name = "read" /\ op.attr = "input" /\ ret = 0
    /\ SctMode
    /\ Byte(st.smartdata, 200) = 246
    /\ st.smartdata = cmds[1].data
    /\ st.have_temp_max /\ st.temp_max = 127000
    /\ \E p \in ProbeRead(SCT_STATUS_REQ_ADDR) : Byte(p, 200) = 25

----------------------------------------------------------------------------
(* Properties of the probe's paths *)

\* the IDENTIFY DEVICE pages the smarttemp probe read
ProbeIdentify ==
    {probe_cmds[i].data : i \in {j \in 1..Len(probe_cmds) :
                                    /\ probe_cmds[j].cmd[14] = ATA_IDENTIFY_DEVICE
                                    /\ probe_cmds[j].err = 0}}

\* the probe's commands with a given feature, whatever the log address
ProbeFeature(feature) ==
    {i \in 1..Len(probe_cmds) : /\ probe_cmds[i].cmd[14] = ATA_CMD_SMART
                                /\ probe_cmds[i].cmd[4] = feature}

\* C19: satatemp_identify on a device with a valid status page and no
\* data-table support ends in SCT mode and succeeds, with no data-table
\* command and no SMART READ VALUES sent.
C19_NoTableSct ==
    (/\ driver = "satatemp"
     /\ op.name = "add"
     /\ ~BitSet(sdev.vpd.word206, 5)
     /\ \E p \in ProbeRead(SCT_STATUS_REQ_ADDR) : ValidStatus(p))
    => /\ ret = 0
       /\ SctMode
       /\ ProbeFeature(SMART_WRITE_LOG) = {}
       /\ ProbeSmartReads = {}

\* a drive with a valid SCT temperature turned away because the SMART page
\* of the fallback did not decode
C19_Witness ==
    /\ driver = "satatemp"
    /\ op.name = "add"
    /\ ~BitSet(sdev.vpd.word206, 5)
    /\ \E p \in ProbeRead(SCT_STATUS_REQ_ADDR) : ValidStatus(p)
    /\ FallbackFailed
    /\ phase = "rejected" /\ ret = -ENODEV

\* C20: smarttemp_identify_features on a device whose IDENTIFY DEVICE word 206
\* has bit 0 clear sends no SMART READ LOG and no SMART WRITE LOG, goes to
\* SMART READ VALUES and sets no limit flag, whatever bit 5 is.
C20_NoStatusLog ==
    (/\ driver = "smarttemp"
     /\ op.name = "add"
     /\ \E p \in ProbeIdentify : ~BitSet(Byte(p, 412), 0))
    => /\ ProbeFeature(SMART_READ_LOG) = {}
       /\ ProbeFeature(SMART_WRITE_LOG) = {}
       /\ ProbeSmartReads # {}
       /\ phase = "registered" => \A a \in Limits : ~FlagOf(st, a)

\* word 206 = 0x20: the data table was requested and read, and its limits set
C20_Witness ==
    /\ driver = "smarttemp"
    /\ op.name = "add"
    /\ \E p \in ProbeIdentify : Byte(p, 412) = 32
    /\ LogOf(probe_cmds, SMART_WRITE_LOG, SCT_STATUS_REQ_ADDR) # {}
    /\ LogOf(probe_cmds, SMART_READ_LOG, SCT_READ_LOG_ADDR) # {}
    /\ LogOf(probe_cmds, SMART_READ_LOG, SCT_STATUS_REQ_ADDR) = {}
    /\ SmartMode
    /\ st.have_temp_max /\ st.temp_max = 127000

----------------------------------------------------------------------------
(* Properties of the command builder, over every argument *)

----------------------------------------------------------------------------
(* Properties of the reads *)

\* the temperature byte a SMART page holds for the decoder: the first 194
\* record's, else the last 190 record's
SmartRaw(p) ==
    IF Records(p, 194) # {} THEN RawOf(p, First(Records(p, 194)))
    ELSE RawOf(p, Last(Records(p, 190)))

\* C22: every read of Input, Lowest or Highest sends exactly one command,
\* SMART READ LOG 0xe0 in SCT mode and SMART READ VALUES in fallback mode; if
\* the command fails the read returns its failure and writes no value; if the
\* read succeeds its value is decoded from the page that command brought
\* back. A read of Min, Max, Lcrit or Crit sends no command.
C22_LiveReads ==
    op.name = "read"
    => /\ op.attr \in Limits => cmds = <<>>
       /\ op.attr \in Live
          => (/\ Len(cmds) = 1
              /\ cmds[1].cmd[14] = ATA_CMD_SMART
              /\ cmds[1].data_dir = "DMA_FROM_DEVICE"
              /\ IF SctMode
                 THEN cmds[1].cmd[4] = SMART_READ_LOG /\ cmds[1].cmd[8] = 224
                 ELSE cmds[1].cmd[4] = ATA_SMART_READ_VALUES /\ cmds[1].cmd[8] = 0
              /\ cmds[1].err # 0 => (ret = cmds[1].err /\ ~wrote)
              /\ ret = 0 <=> wrote
              /\ ret = 0
                 => (/\ cmds[1].err = 0
                     /\ st.smartdata = cmds[1].data
                     /\ IF SctMode
                        THEN val = char(Byte(cmds[1].data, OffsetOf(op.attr))) * 1000
                        ELSE Decodable(cmds[1].data)
                             /\ val = SmartRaw(cmds[1].data) * 1000))

\* an SCT-mode read of Input gives the temperature of the page just read, not
\* the one the probe saw; and the command of a read can fail
C22_Witness ==
    /\ op.name = "read" /\ op.attr = "input"
    /\ SctMode
    /\ \E p \in ProbeRead(SCT_STATUS_REQ_ADDR) : Byte(p, 200) = 246
    /\ Len(cmds) = 1 /\ cmds[1].err = 0 /\ Byte(cmds[1].data, 200) = 25
    /\ ret = 0 /\ wrote /\ val = 25000

\* the 512-byte page that asks for the temperature history table
IsTableRequest(p) ==
    \A j \in 0..511 :
        Byte(p, j) = (CASE j = 0 -> 5 [] j = 2 -> 1 [] j = 4 -> 2 [] OTHER -> 0)

\* the commands of a log that write a log page, or read the data-table page
TableCommands(log) ==
    {i \in 1..Len(log) : /\ log[i].cmd[14] = ATA_CMD_SMART
                         /\ \/ log[i].cmd[4] = SMART_WRITE_LOG
                            \/ /\ log[i].cmd[4] = SMART_READ_LOG
                               /\ log[i].cmd[8] = SCT_READ_LOG_ADDR}

\* C23: SMART READ LOG 0xe1 is sent only as the command right after a
\* successful SMART WRITE LOG 0xe0 of the same probe; every SMART WRITE LOG
\* goes to address 0xe0, is data-out and carries the 512-byte request with
\* byte 0 = 5, byte 2 = 1, byte 4 = 2 and every other byte 0; a read sends
\* neither command.
C23_TableRequest ==
    /\ \A i \in LogOf(probe_cmds, SMART_READ_LOG, SCT_READ_LOG_ADDR) :
          /\ i > 1
          /\ i - 1 \in LogOf(probe_cmds, SMART_WRITE_LOG, SCT_STATUS_REQ_ADDR)
          /\ probe_cmds[i - 1].err = 0
    /\ \A i \in ProbeFeature(SMART_WRITE_LOG) :
          /\ probe_cmds[i].cmd[8] = SCT_STATUS_REQ_ADDR
          /\ probe_cmds[i].data_dir = "DMA_TO_DEVICE"
          /\ probe_cmds[i].bufflen = ATA_SECT_SIZE
          /\ IsTableRequest(probe_cmds[i].data)
    /\ op.name = "read" => TableCommands(cmds) = {}

\* a device whose probe wrote the request over a status page it had read and
\* then read the table, and which has since served a read
C23_Witness ==
    /\ op.name = "read" /\ op.attr \in Live /\ Len(cmds) = 1
    /\ \E p \in ProbeRead(SCT_STATUS_REQ_ADDR) : Byte(p, 200) # 0
    /\ \E i \in LogOf(probe_cmds, SMART_READ_LOG, SCT_READ_LOG_ADDR) :
          /\ probe_cmds[i].err = 0
          /\ IsTableRequest(probe_cmds[i - 1].data)

----------------------------------------------------------------------------
(* Properties of the probe's flags and of its commands *)

\* the probe read a valid SCT status page whose byte at offset was not 0x80
StatusByteValid(offset) ==
    \E p \in ProbeRead(SCT_STATUS_REQ_ADDR) :
        ValidStatus(p) /\ Byte(p, offset) # INVALID_TEMP

\* C24: on a device the probe registered, have_temp_lowest is true exactly
\* when the probe read an SCT status page of version 2 or 3 with byte 200 not
\* 0x80 whose byte 201 is not 0x80, and have_temp_highest exactly when it read
\* such a page whose byte 202 is not 0x80; each flag follows its own byte, and
\* with no such page both are false.
C24_LowestHighest ==
    phase = "registered"
    => /\ st.have_temp_lowest <=> StatusByteValid(SCT_STATUS_TEMP_LOWEST)
       /\ st.have_temp_highest <=> StatusByteValid(SCT_STATUS_TEMP_HIGHEST)

\* a probe that read a valid status page with a lowest and no highest
\* temperature
C24_Witness ==
    /\ phase = "registered" /\ op.name = "add"
    /\ \E p \in ProbeRead(SCT_STATUS_REQ_ADDR) :
          /\ ValidStatus(p)
          /\ Byte(p, 201) = 236 /\ Byte(p, 202) = 128
    /\ st.have_temp_lowest /\ ~st.have_temp_highest

----------------------------------------------------------------------------
(* Placeholder records in the SMART attribute scan *)

\* the scanned records of a page that are not placeholders
Used(buf) == {k \in Scanned : IdOf(buf, k) # 0}

\* the slot of the j-th used record, counting from 0
UsedAt(buf, j) ==
    CHOOSE k \in Used(buf) : Cardinality({i \in Used(buf) : i < k}) = j

\* the id and raw bytes of the page without its placeholders: the used
\* records moved up to slots 0, 1, ... in their order
WithoutPlaceholders(buf) ==
    [i \in {12 * j + o : j \in 0..(Cardinality(Used(buf)) - 1), o \in {2, 7}} |->
        IF i % 12 = 2 THEN IdOf(buf, UsedAt(buf, i \div 12))
        ELSE RawOf(buf, UsedAt(buf, i \div 12))]

\* a temperature record with a placeholder somewhere before it
PlaceholderBeforeTemp(buf) ==
    \E k \in Records(buf, 190) \cup Records(buf, 194) :
        \E j \in Records(buf, 0) : j < k

\* C25: a page with checksum 0 that has id-0 records before an attribute 190
\* or 194 record among its 30 scanned records decodes, with success, to what
\* the same records decode to with the id-0 records taken out: the raw byte
\* of the first 194 record, else of the last 190 record, times 1000.
C25_PlaceholderSkipped ==
    (/\ SmartDecoderRan
     /\ PageSum(st.smartdata) = 0
     /\ PlaceholderBeforeTemp(st.smartdata))
    => (/\ ret = 0
        /\ wrote
        /\ val = SmartRaw(WithoutPlaceholders(st.smartdata)) * 1000
        /\ val = SmartRaw(st.smartdata) * 1000)

\* two placeholders in slots 0 and 1 and attribute 190 in the last scanned
\* slot, which is the first record once the placeholders are taken out
C25_Witness ==
    /\ SmartDecoderRan
    /\ PageSum(st.smartdata) = 0
    /\ Records(st.smartdata, 0) = Scanned \ {29}
    /\ Records(st.smartdata, 190) = {29}
    /\ Records(WithoutPlaceholders(st.smartdata), 190) = {0}
    /\ ret = 0 /\ wrote /\ val = RawAt(29) * 1000

----------------------------------------------------------------------------
(* The commands of one probe *)

\* the place of a command in the probe's order: IDENTIFY DEVICE, READ LOG
\* 0xe0, WRITE LOG 0xe0, READ LOG 0xe1, SMART READ VALUES; -1 for any other
StepOf(e) ==
    IF e.cmd[14] = ATA_IDENTIFY_DEVICE THEN 0
    ELSE IF e.cmd[14] # ATA_CMD_SMART THEN -1
    ELSE IF e.cmd[4] = SMART_READ_LOG /\ e.cmd[8] = SCT_STATUS_REQ_ADDR THEN 1
    ELSE IF e.cmd[4] = SMART_WRITE_LOG /\ e.cmd[8] = SCT_STATUS_REQ_ADDR THEN 2
    ELSE IF e.cmd[4] = SMART_READ_LOG /\ e.cmd[8] = SCT_READ_LOG_ADDR THEN 3
    ELSE IF e.cmd[4] = ATA_SMART_READ_VALUES /\ e.cmd[8] = 0 THEN 4
    ELSE -1

\* the commands of the probe are among the known ones, strictly in their
\* order, so each is sent at most once and none again after it failed
ProbeInOrder ==
    /\ \A i \in 1..Len(probe_cmds) :
          StepOf(probe_cmds[i]) >= (IF driver = "satatemp" THEN 1 ELSE 0)
    /\ \A i, j \in 1..Len(probe_cmds) :
          i < j => StepOf(probe_cmds[i]) < StepOf(probe_cmds[j])
    /\ Len(probe_cmds) <= (IF driver = "satatemp" THEN 4 ELSE 5)

\* what add hands back for the attached device when the drive answers R
Outcome(R) ==
    IF driver = "satatemp" THEN satatemp_add(sdev, R) ELSE smarttemp_add(sdev, R)

\* C26: for a device handed to add, add comes back registered or rejected
\* whatever the drive answers; the probe sent at most 4 commands in satatemp
\* (READ LOG 0xe0, WRITE LOG 0xe0, READ LOG 0xe1, SMART READ VALUES) and at
\* most 5 in smarttemp (IDENTIFY DEVICE, then those), each at most once and
\* in that order, with no command sent again after it failed.
C26_BoundedProbe ==
    /\ ProbeInOrder
    /\ phase = "attached" => \A R \in ProbeAnswers : Outcome(R).reg \in BOOLEAN
    /\ op.name = "add" => phase \in {"registered", "rejected"}

\* a smarttemp probe that sent all five commands, the status page it read
\* being of no use, and registered the device through the SMART fallback
C26_Witness ==
    /\ driver = "smarttemp" /\ op.name = "add" /\ phase = "registered"
    /\ Len(probe_cmds) = 5
    /\ \A i \in 1..5 : StepOf(probe_cmds[i]) = i - 1
    /\ probe_cmds[4].err # 0

====
